---- MODULE Spec2Model ----
(***************************************************************************)
(* Model of the gutter containers (CrepeGoat/gutter): the heap-style       *)
(* binary-tree engine gutter_base and its two specialisations,             *)
(* gutter_retrieve (point update / range query) and gutter_apply (range    *)
(* update / point query).                                                  *)
(***************************************************************************)
EXTENDS Integers, Sequences, FiniteSets, TLC

\* ------------------------------------------------------------------ bounds
MaxN   == 5      \* largest number of elements of a container
MaxOps == 2      \* largest number of mutating calls made on one container

VARIABLES
    variant,     \* which class was constructed: "retrieve" or "apply"
    opname,      \* the FUNCTOR_T the container was instantiated with
    size,        \* gutter_base::_size
    heap,        \* gutter_base::heap, cells 1..2*size-1
    values,      \* the plain array kept in lockstep by the caller
    nops,        \* number of mutating calls made so far
    called,      \* the kinds of calls made so far
    last,        \* the last call: its kind and arguments
    before,      \* the buffer as it was when the last call was made
    ret,         \* what the last call emitted through its output iterator
    iter,        \* how far the last call advanced the iterator it was given
    budget       \* number of mutating calls the container is followed for

vars == <<variant, opname, size, heap, values, nops, called, last, before, ret,
          iter, budget>>

\* --------------------------------------------------------------- operation
\* struct add: operator()() and operator()(T,T)
add_identity == 0
add_combine(arg1, arg2) == arg1 + arg2

\* an associative, non-commutative FUNCTOR_T: sequence concatenation
cat_identity == <<>>
cat_combine(arg1, arg2) == arg1 \o arg2

\* this->op() and this->op(a, b)
identity == IF opname = "add" THEN add_identity ELSE cat_identity
combine(a, b) == IF opname = "add" THEN add_combine(a, b) ELSE cat_combine(a, b)

\* The operands a caller passes.  The containers never inspect an element,
\* they only hand it to op, so the c-th call passes operands no other call
\* passes: for the sum, k times the (c-1)-th power of a radix no sum of n
\* digits up to n reaches, so that a sum tells which operands went into it;
\* for concatenation, a one-element sequence naming c and k.
Radix == (MaxN + 2) * (MaxN + 2)
Operand(c, k) == IF opname = "add" THEN k * Radix ^ (c - 1) ELSE <<c * Radix + k>>

\* ---------------------------------------------------------------- geometry
\* msb of BitTwiddles.h, which is not among the sources: the greatest power
\* of two not above v (index_first_of_row's comment, "highest power of two
\* <= v" in the specification)
RECURSIVE msb(_)
msb(v) == IF v <= 1 THEN v ELSE 2 * msb(v \div 2)

index_parent(k) == k \div 2
index_lbranch(k) == 2 * k
index_rbranch(k) == 2 * k + 1
index_islbranch(index) == index % 2 = 0
index_first_of_row(index) == msb(index)

\* faulty variant of the operator below: wraps back by _size - 1
index_nth_leaf_wrapping_short(k) ==
    LET index_deepest_lvl_1st == index_first_of_row(2 * size - 1)
    IN  k + index_deepest_lvl_1st
          - (IF k + index_deepest_lvl_1st < 2 * size THEN 0 ELSE size - 1)

index_nth_leaf(k) ==
    LET index_deepest_lvl_1st == index_first_of_row(2 * size - 1)
    IN  k + index_deepest_lvl_1st
          - (IF k + index_deepest_lvl_1st < 2 * size THEN 0 ELSE size)

RECURSIVE index_ancestor_in_row(_, _)
index_ancestor_in_row(index, row_1st) ==
    IF index_parent(index) >= row_1st
    THEN index_ancestor_in_row(index_parent(index), row_1st)
    ELSE index

\* the indices j = a, a+1, ..., b of a for loop, in order (none when a > b)
RECURSIVE UpTo(_, _)
UpTo(a, b) == IF a > b THEN <<>> ELSE <<a>> \o UpTo(a + 1, b)

\* -------------------------------------------------------------- traversals
\* Each traversal is the sequence of indices it hands to its functor.

\* faulty variant of the walk below: stops before the root (index > 1)
RECURSIVE leafup_stopping_below_root(_)
leafup_stopping_below_root(index) ==
    IF index > 1
    THEN <<index>> \o leafup_stopping_below_root(index_parent(index))
    ELSE <<>>

\* act_on_all_ancestors_leafup(index, functor)
RECURSIVE act_on_all_ancestors_leafup(_)
act_on_all_ancestors_leafup(index) ==
    IF index > 0
    THEN <<index>> \o act_on_all_ancestors_leafup(index_parent(index))
    ELSE <<>>

\* act_on_all_ancestors_rootdown(index, functor): the loop from row i on
RECURSIVE rootdown_rows(_, _)
rootdown_rows(index, i) ==
    IF i < index
    THEN <<index_ancestor_in_row(index, i)>> \o rootdown_rows(index, 2 * i)
    ELSE <<>>

act_on_all_ancestors_rootdown(index) == rootdown_rows(index, 1)

\* act_on_all_ancestors(index, functor)
act_on_all_ancestors(index) == act_on_all_ancestors_leafup(index)

\* faulty variant of the loop below: stops before the root's row (i1 > 1)
RECURSIVE leafup_range_rows_below_root(_, _)
leafup_range_rows_below_root(i1, i2) ==
    IF i1 > 1
    THEN UpTo(i1, i2) \o leafup_range_rows_below_root(index_parent(i1), index_parent(i2))
    ELSE <<>>

\* act_on_all_ancestors_leafup(i1, i2, functor): the while loop
RECURSIVE leafup_range_rows(_, _)
leafup_range_rows(i1, i2) ==
    IF i1 > 0
    THEN UpTo(i1, i2) \o leafup_range_rows(index_parent(i1), index_parent(i2))
    ELSE <<>>

\* faulty variant of the operator below: the rows loop alone, without the
\* loop for the part of the deepest parent row when i1 > i2
leafup_range_same_row_only(i1, i2) == leafup_range_rows(i1, i2)

act_on_all_ancestors_leafup_range(i1, i2) ==
    IF i1 > i2
    THEN UpTo(i1, index_ancestor_in_row(2 * size - 1, index_first_of_row(i1)))
           \o leafup_range_rows(index_parent(i1), i2)
    ELSE leafup_range_rows(i1, i2)

\* faulty variant of the loop below: stops above the row of i1 (i < i1)
RECURSIVE rootdown_range_rows_above_i1(_, _, _)
rootdown_range_rows_above_i1(i1, i2, i) ==
    IF i < i1
    THEN UpTo(index_ancestor_in_row(i1, i),
              index_ancestor_in_row(IF i <= i2 THEN i2 ELSE 2 * size - 1, i))
           \o rootdown_range_rows_above_i1(i1, i2, 2 * i)
    ELSE <<>>

\* faulty variant of the loop below: in the rows below that of i2 the last
\* cell is 2*_size-1 itself, not its ancestor in the row
RECURSIVE rootdown_range_rows_to_last_cell(_, _, _)
rootdown_range_rows_to_last_cell(i1, i2, i) ==
    IF i <= i1
    THEN UpTo(index_ancestor_in_row(i1, i),
              IF i <= i2 THEN index_ancestor_in_row(i2, i) ELSE 2 * size - 1)
           \o rootdown_range_rows_to_last_cell(i1, i2, 2 * i)
    ELSE <<>>

\* faulty variant of the loop below: the rows are taken deepest first
RECURSIVE rootdown_range_rows_deepest_first(_, _, _)
rootdown_range_rows_deepest_first(i1, i2, i) ==
    IF i <= i1
    THEN rootdown_range_rows_deepest_first(i1, i2, 2 * i)
           \o UpTo(index_ancestor_in_row(i1, i),
                   index_ancestor_in_row(IF i <= i2 THEN i2 ELSE 2 * size - 1, i))
    ELSE <<>>

\* act_on_all_ancestors_rootdown(i1, i2, functor): the loop from row i on
RECURSIVE rootdown_range_rows(_, _, _)
rootdown_range_rows(i1, i2, i) ==
    IF i <= i1
    THEN UpTo(index_ancestor_in_row(i1, i),
              index_ancestor_in_row(IF i <= i2 THEN i2 ELSE 2 * size - 1, i))
           \o rootdown_range_rows(i1, i2, 2 * i)
    ELSE <<>>

act_on_all_ancestors_rootdown_range(i1, i2) == rootdown_range_rows(i1, i2, 1)

\* faulty variant of the loop below: when the left bound meets the right
\* one just after functor(i1++), the functor is not called on the meeting node
RECURSIVE min_covering_loop_dropping_met(_, _)
min_covering_loop_dropping_met(i1, i2) ==
    IF i1 = i2 THEN <<i1>>
    ELSE
      LET e1 == IF ~index_islbranch(i1) THEN <<i1>> ELSE <<>>
          a1 == IF ~index_islbranch(i1) THEN i1 + 1 ELSE i1
      IN  IF ~index_islbranch(i1) /\ a1 = i2 THEN e1
          ELSE
            LET b1 == index_parent(a1)
            IN  IF b1 = i2 THEN e1 \o <<b1>>
                ELSE
                  LET e2 == IF index_islbranch(i2) THEN <<i2>> ELSE <<>>
                      a2 == IF index_islbranch(i2) THEN i2 - 1 ELSE i2
                  IN  IF index_islbranch(i2) /\ b1 = a2
                      THEN e1 \o e2 \o <<b1>>
                      ELSE e1 \o e2
                             \o min_covering_loop_dropping_met(b1, index_parent(a2))

\* act_on_min_covering_ancestors: the while (true) loop on the two bounds,
\* followed by the functor call on the common ancestor
RECURSIVE min_covering_loop(_, _)
min_covering_loop(i1, i2) ==
    IF i1 = i2 THEN <<i1>>
    ELSE
      LET e1 == IF ~index_islbranch(i1) THEN <<i1>> ELSE <<>>
          a1 == IF ~index_islbranch(i1) THEN i1 + 1 ELSE i1
      IN  IF ~index_islbranch(i1) /\ a1 = i2 THEN e1 \o <<a1>>
          ELSE
            LET b1 == index_parent(a1)
            IN  IF b1 = i2 THEN e1 \o <<b1>>
                ELSE
                  LET e2 == IF index_islbranch(i2) THEN <<i2>> ELSE <<>>
                      a2 == IF index_islbranch(i2) THEN i2 - 1 ELSE i2
                  IN  IF index_islbranch(i2) /\ b1 = a2
                      THEN e1 \o e2 \o <<b1>>
                      ELSE e1 \o e2 \o min_covering_loop(b1, index_parent(a2))

\* faulty variant of the operator below: returns early only when i1 > i2
\* and takes i1 = i2 for the range of the one element i1
min_covering_ancestors_of_closed_range(i1, i2) ==
    IF i1 > i2 THEN <<>>
    ELSE IF i1 = i2 THEN <<index_nth_leaf(i1)>>
    ELSE min_covering_loop(index_nth_leaf(i1), index_nth_leaf(i2 - 1))

\* faulty variant of the operator below: no break when the left bound, moved
\* to its parent, meets the right one
RECURSIVE min_covering_bounds_passing(_, _, _)
min_covering_bounds_passing(i1, i2, fuel) ==
    IF i1 = i2 \/ fuel = 0 THEN << <<i1, i2>> >>
    ELSE
      LET a1 == IF ~index_islbranch(i1) THEN i1 + 1 ELSE i1
      IN  IF ~index_islbranch(i1) /\ a1 = i2
          THEN << <<i1, i2>>, <<a1, i2>> >>
          ELSE
            LET b1 == index_parent(a1)
            IN                    LET a2 == IF index_islbranch(i2) THEN i2 - 1 ELSE i2
                  IN  IF index_islbranch(i2) /\ b1 = a2
                      THEN << <<i1, i2>>, <<a1, i2>>, <<b1, i2>>, <<b1, a2>> >>
                      ELSE << <<i1, i2>>, <<a1, i2>>, <<b1, i2>>, <<b1, a2>> >>
                             \o min_covering_bounds_passing(b1, index_parent(a2), fuel - 1)

\* act_on_min_covering_ancestors: the values <<i1, i2>> the loop gives its two
\* bounds, in order, for at most fuel iterations; the loop has left by one of
\* its breaks exactly when the last pair is of two equal values
RECURSIVE min_covering_bounds(_, _, _)
min_covering_bounds(i1, i2, fuel) ==
    IF i1 = i2 \/ fuel = 0 THEN << <<i1, i2>> >>
    ELSE
      LET a1 == IF ~index_islbranch(i1) THEN i1 + 1 ELSE i1
      IN  IF ~index_islbranch(i1) /\ a1 = i2
          THEN << <<i1, i2>>, <<a1, i2>> >>
          ELSE
            LET b1 == index_parent(a1)
            IN  IF b1 = i2 THEN << <<i1, i2>>, <<a1, i2>>, <<b1, i2>> >>
                ELSE
                  LET a2 == IF index_islbranch(i2) THEN i2 - 1 ELSE i2
                  IN  IF index_islbranch(i2) /\ b1 = a2
                      THEN << <<i1, i2>>, <<a1, i2>>, <<b1, i2>>, <<b1, a2>> >>
                      ELSE << <<i1, i2>>, <<a1, i2>>, <<b1, i2>>, <<b1, a2>> >>
                             \o min_covering_bounds(b1, index_parent(a2), fuel - 1)

act_on_min_covering_ancestors(i1, i2) ==
    IF i1 >= i2 THEN <<>>
    ELSE min_covering_loop(index_nth_leaf(i1), index_nth_leaf(i2 - 1))

\* act_on_leaves_in_order: the do-while loop, i2 already exclusive
RECURSIVE leaves_in_order_loop(_, _)
leaves_in_order_loop(i, i2) ==
    LET j == IF i = 2 * size THEN index_parent(i) ELSE i
    IN  <<j>> \o (IF j + 1 # i2 THEN leaves_in_order_loop(j + 1, i2) ELSE <<>>)

act_on_leaves_in_order(i1, i2) == leaves_in_order_loop(i1, i2 + 1)

\* ---------------------------------------------------------------- functors
\* Each functor is its operator() on one index; the each_ operator below it
\* is the traversal calling it on every index it visits, in order.

\* faulty variant of the functor below: res = op(binarray[in], res)
functor_get_prepending(h, res, in) == combine(h[in], res)

\* functor_get::operator(): res = op(res, binarray[in])
functor_get(h, res, in) == combine(res, h[in])

RECURSIVE each_get(_, _, _)
each_get(h, res, nodes) ==
    IF nodes = <<>> THEN res
    ELSE each_get(h, functor_get(h, res, Head(nodes)), Tail(nodes))

\* faulty variant of the functor below: binarray[out] = input
functor_apply_overwriting(h, input, out) == [h EXCEPT ![out] = input]

\* functor_apply::operator(): binarray[out] = op(binarray[out], input)
functor_apply(h, input, out) == [h EXCEPT ![out] = combine(h[out], input)]

RECURSIVE each_apply(_, _, _)
each_apply(h, input, nodes) ==
    IF nodes = <<>> THEN h
    ELSE each_apply(functor_apply(h, input, Head(nodes)), input, Tail(nodes))

\* functor_get_to_iter::operator(): *(iter++) = binarray[index]
functor_get_to_iter(h, out, index) == Append(out, h[index])

RECURSIVE each_get_to_iter(_, _, _)
each_get_to_iter(h, out, nodes) ==
    IF nodes = <<>> THEN out
    ELSE each_get_to_iter(h, functor_get_to_iter(h, out, Head(nodes)), Tail(nodes))

\* faulty variant of the functor below: binarray[index] = *iter
functor_set_from_iter_not_advancing(st, input, index) ==
    [binarray |-> [st.binarray EXCEPT ![index] = input[st.iter + 1]],
     iter     |-> st.iter]

\* functor_set_from_iter::operator(): binarray[index] = *(iter++)
\* st is the buffer together with the number of elements read so far
functor_set_from_iter(st, input, index) ==
    [binarray |-> [st.binarray EXCEPT ![index] = input[st.iter + 1]],
     iter     |-> st.iter + 1]

RECURSIVE each_set_from_iter(_, _, _)
each_set_from_iter(st, input, nodes) ==
    IF nodes = <<>> THEN st
    ELSE each_set_from_iter(functor_set_from_iter(st, input, Head(nodes)),
                            input, Tail(nodes))

\* gutter_retrieve::functor_update_parent::operator()
functor_update_parent(h, index) ==
    [h EXCEPT ![index] = combine(h[index_lbranch(index)], h[index_rbranch(index)])]

RECURSIVE each_update_parent(_, _)
each_update_parent(h, nodes) ==
    IF nodes = <<>> THEN h
    ELSE each_update_parent(functor_update_parent(h, Head(nodes)), Tail(nodes))

\* faulty variant of the functor below: the node keeps its value
functor_consolidate_keeping_value(h, index) ==
    LET h1 == [h  EXCEPT ![index_lbranch(index)] =
                              combine(h[index_lbranch(index)], h[index])]
    IN  [h1 EXCEPT ![index_rbranch(index)] =
                              combine(h1[index_rbranch(index)], h1[index])]

\* gutter_apply::functor_consolidate::operator(): the three assignments, one
\* after the other.  The source names the parameter "in" and writes "index"
\* in the body; index is read as the parameter, which makes the body that of
\* consolidate_to_children(index).
functor_consolidate(h, index) ==
    LET h1 == [h  EXCEPT ![index_lbranch(index)] =
                              combine(h[index_lbranch(index)], h[index])]
        h2 == [h1 EXCEPT ![index_rbranch(index)] =
                              combine(h1[index_rbranch(index)], h1[index])]
    IN  [h2 EXCEPT ![index] = identity]

RECURSIVE each_consolidate(_, _)
each_consolidate(h, nodes) ==
    IF nodes = <<>> THEN h
    ELSE each_consolidate(functor_consolidate(h, Head(nodes)), Tail(nodes))

\* ------------------------------------------------------------ construction
\* faulty variant of the constructor below: std::fill stops one cell early,
\* the last cell keeps whatever the allocation held
gutter_retrieve_new_filling_short(n) ==
    [k \in 1..(2 * n - 1) |->
        IF k < 2 * n - 1 THEN identity ELSE Operand(1, 1)]

\* gutter_retrieve(n, functor): std::fill of cells 1..2n-1 with op()
gutter_retrieve_new(n) == [k \in 1..(2 * n - 1) |-> identity]

\* gutter_apply(n, functor): std::fill of cells 1..2n-1 with op()
gutter_apply_new(n) == [k \in 1..(2 * n - 1) |-> identity]

\* --------------------------------------------------------- gutter_retrieve
\* operator[]
gutter_retrieve_read(h, leaf_no) == h[index_nth_leaf(leaf_no)]

\* assign(leaf_no, x)
gutter_retrieve_assign(h, leaf_no, x) ==
    LET leaf == index_nth_leaf(leaf_no)
    IN  each_update_parent([h EXCEPT ![leaf] = x],
                           act_on_all_ancestors_leafup(index_parent(leaf)))

\* faulty variant of apply below: the ancestors are not recomputed
gutter_retrieve_apply_leaf_only(h, leaf_no, x) ==
    [h EXCEPT ![index_nth_leaf(leaf_no)] = combine(h[index_nth_leaf(leaf_no)], x)]

\* apply(leaf_no, x)
gutter_retrieve_apply(h, leaf_no, x) ==
    LET leaf == index_nth_leaf(leaf_no)
    IN  each_update_parent([h EXCEPT ![leaf] = combine(h[leaf], x)],
                           act_on_all_ancestors_leafup(index_parent(leaf)))

\* accumulate(leaf1, leaf2)
gutter_retrieve_accumulate(h, leaf1, leaf2) ==
    each_get(h, identity, act_on_min_covering_ancestors(leaf1, leaf2))

\* assign(i1, i2, input): the buffer afterwards and the number of elements
\* the returned iterator is past the one given
gutter_retrieve_assign_range(h, i1, i2, input) ==
    IF i1 > i2 THEN [binarray |-> h, iter |-> 0]
    ELSE IF i1 = i2 THEN [binarray |-> h, iter |-> 0]
    ELSE
      LET l1 == index_nth_leaf(i1)
          l2 == index_nth_leaf(i2 - 1)
          st == each_set_from_iter([binarray |-> h, iter |-> 0], input,
                                   act_on_leaves_in_order(l1, l2))
      IN  [binarray |-> each_update_parent(
                            st.binarray,
                            act_on_all_ancestors_leafup_range(index_parent(l1),
                                                              index_parent(l2))),
           iter     |-> st.iter]

\* gutter_retrieve(initializer_list source, functor): new RESULT_T[2n-1] is
\* not filled, raw is what the allocation holds; then assign(0, n, source)
gutter_retrieve_new_list(raw, source) ==
    gutter_retrieve_assign_range(raw, 0, Len(source), source).binarray

\* ------------------------------------------------------------ gutter_apply
\* apply(leaf_no, x)
gutter_apply_apply(h, leaf_no, x) ==
    [h EXCEPT ![index_nth_leaf(leaf_no)] = combine(h[index_nth_leaf(leaf_no)], x)]

\* assign(leaf_no, x)
gutter_apply_assign(h, leaf_no, x) ==
    LET leaf == index_nth_leaf(leaf_no)
        h1   == each_consolidate(h, act_on_all_ancestors_rootdown(index_parent(leaf)))
    IN  [h1 EXCEPT ![leaf] = combine(h1[leaf], x)]

\* operator[]
gutter_apply_read(h, leaf_no) ==
    each_get(h, identity, act_on_all_ancestors(index_nth_leaf(leaf_no)))

\* apply(i1, i2, x)
gutter_apply_apply_range(h, i1, i2, x) ==
    each_apply(h, x, act_on_min_covering_ancestors(i1, i2))

\* copy(i1, i2, output): the buffer afterwards and the elements written
gutter_apply_copy(h, i1, i2) ==
    IF i1 > i2 THEN [binarray |-> h, out |-> <<>>]
    ELSE IF i1 = i2 THEN [binarray |-> h, out |-> <<>>]
    ELSE
      LET l1 == index_nth_leaf(i1)
          l2 == index_nth_leaf(i2 - 1)
          h1 == each_consolidate(
                    h, act_on_all_ancestors_rootdown_range(index_parent(l1),
                                                           index_parent(l2)))
      IN  [binarray |-> h1,
           out      |-> each_get_to_iter(h1, <<>>, act_on_leaves_in_order(l1, l2))]

\* ------------------------------------------------------------- the callers
\* operator[] and accumulate are const: they are the operators
\* gutter_retrieve_read, gutter_retrieve_accumulate and gutter_apply_read of
\* the buffer.  The calls below are the ones that write the buffer.
Leaves == 0..(size - 1)
Bounds == 0..size

\* the operand of the next call, and the sequence the next call passes to
\* assign(i1, i2, input): one element per position, and one to spare when
\* the range is empty
NextOperand == Operand(nops + 1, 1)
NextInput(len) == [k \in 1..(IF len = 0 THEN 1 ELSE len) |-> Operand(nops + 1, k)]

\* test_add_to keeps values[index] = functor(values[index], delta) in lockstep
values_apply(v, index, delta) == [v EXCEPT ![index] = combine(v[index], delta)]

values_apply_range(v, i1, i2, x) ==
    [k \in DOMAIN v |-> IF i1 <= k /\ k < i2 THEN combine(v[k], x) ELSE v[k]]

values_assign_range(v, i1, i2, input) ==
    [k \in DOMAIN v |-> IF i1 <= k /\ k < i2 THEN input[k - i1 + 1] ELSE v[k]]

Called(kind, i1, i2, x) ==
    /\ nops < budget
    /\ nops' = nops + 1
    /\ called' = called \cup {kind}
    /\ last' = [kind |-> kind, i1 |-> i1, i2 |-> i2, x |-> x]
    /\ before' = heap
    /\ UNCHANGED <<variant, opname, size, budget>>

\* what new RESULT_T[2n-1] may hold: any value in any cell.  Here a value
\* that is no element of the source, in no cell, in one cell, or in all
RawBuffers(n) ==
    {[k \in 1..(2 * n - 1) |-> IF k \in junk THEN Operand(MaxOps + 2, 1) ELSE identity] :
        junk \in {{}, 1..(2 * n - 1)} \cup {{c} : c \in 1..(2 * n - 1)}}

\* the sequence the initializer_list constructor is given
Source(n) == [k \in 1..n |-> Operand(MaxOps + 1, k)]

\* construction with a size: gutter_retrieve(n) or gutter_apply(n)
InitSized ==
    /\ variant \in {"retrieve", "apply"}
    /\ opname \in {"add", "cat"}
    /\ size \in 1..MaxN
    /\ heap = IF variant = "retrieve" THEN gutter_retrieve_new(size)
                                      ELSE gutter_apply_new(size)
    /\ values = [k \in 0..(size - 1) |-> identity]
    /\ last = [kind |-> "new", i1 |-> 0, i2 |-> 0, x |-> identity]

\* construction from a sequence: gutter_retrieve(initializer_list)
InitFromList ==
    /\ variant = "retrieve"
    /\ opname \in {"add", "cat"}
    /\ size \in 1..MaxN
    /\ \E raw \in RawBuffers(size) : heap = gutter_retrieve_new_list(raw, Source(size))
    /\ values = [k \in 0..(size - 1) |-> Source(size)[k + 1]]
    /\ last = [kind |-> "new_list", i1 |-> 0, i2 |-> size, x |-> Source(size)]

\* A container made from a list is the one made with a size after
\* assign(0, n, list): it is followed for one call less.
Init ==
    /\ \/ InitSized /\ budget = MaxOps
       \/ InitFromList /\ budget = MaxOps - 1
    /\ nops = 0
    /\ called = {}
    /\ before = heap
    /\ ret = <<>>
    /\ iter = 0

\* gutter_apply(n) over concatenation, followed for one call more, n smaller
InitPending ==
    /\ InitSized
    /\ variant = "apply"
    /\ opname = "cat"
    /\ size <= MaxN - 2
    /\ nops = 0
    /\ called = {}
    /\ before = heap
    /\ ret = <<>>
    /\ iter = 0
    /\ budget = MaxOps + 1

RetrieveAssign(i, x) ==
    /\ variant = "retrieve"
    /\ Called("assign", i, i + 1, x)
    /\ heap' = gutter_retrieve_assign(heap, i, x)
    /\ values' = [values EXCEPT ![i] = x]
    /\ ret' = <<>>
    /\ iter' = 0

RetrieveApply(i, x) ==
    /\ variant = "retrieve"
    /\ Called("apply", i, i + 1, x)
    /\ heap' = gutter_retrieve_apply(heap, i, x)
    /\ values' = values_apply(values, i, x)
    /\ ret' = <<>>
    /\ iter' = 0

RetrieveAssignRange(i1, i2, input) ==
    /\ variant = "retrieve"
    /\ Called("assign_range", i1, i2, input)
    /\ values' = values_assign_range(values, i1, i2, input)
    /\ ret' = <<>>
    /\ LET r == gutter_retrieve_assign_range(heap, i1, i2, input)
       IN  /\ heap' = r.binarray
           /\ iter' = r.iter

ApplyApply(i, x) ==
    /\ variant = "apply"
    /\ Called("apply", i, i + 1, x)
    /\ heap' = gutter_apply_apply(heap, i, x)
    /\ values' = values_apply(values, i, x)
    /\ ret' = <<>>
    /\ iter' = 0

ApplyAssign(i, x) ==
    /\ variant = "apply"
    /\ Called("assign", i, i + 1, x)
    /\ heap' = gutter_apply_assign(heap, i, x)
    /\ values' = values_apply(values, i, x)
    /\ ret' = <<>>
    /\ iter' = 0

ApplyApplyRange(i1, i2, x) ==
    /\ variant = "apply"
    /\ Called("apply_range", i1, i2, x)
    /\ heap' = gutter_apply_apply_range(heap, i1, i2, x)
    /\ values' = values_apply_range(values, i1, i2, x)
    /\ ret' = <<>>
    /\ iter' = 0

ApplyCopy(i1, i2) ==
    /\ variant = "apply"
    /\ Called("copy", i1, i2, identity)
    /\ LET r == gutter_apply_copy(heap, i1, i2)
       IN  /\ heap' = r.binarray
           /\ ret' = r.out
           /\ iter' = Len(r.out)
    /\ UNCHANGED values

Next ==
    \/ \E i \in Leaves : RetrieveAssign(i, NextOperand)
    \/ \E i \in Leaves : RetrieveApply(i, NextOperand)
    \/ \E i1 \in Bounds, i2 \in Bounds :
          i1 <= i2 /\ RetrieveAssignRange(i1, i2, NextInput(i2 - i1))
    \/ \E i \in Leaves : ApplyApply(i, NextOperand)
    \/ \E i \in Leaves : ApplyAssign(i, NextOperand)
    \/ \E i1 \in Bounds, i2 \in Bounds : i1 <= i2 /\ ApplyApplyRange(i1, i2, NextOperand)
    \/ \E i1 \in Bounds, i2 \in Bounds : i1 <= i2 /\ ApplyCopy(i1, i2)

Spec == Init /\ [][Next]_vars

\* the calls of gutter_apply, the ranges not empty
NextPending ==
    \/ \E i \in Leaves : ApplyApply(i, NextOperand)
    \/ \E i \in Leaves : ApplyAssign(i, NextOperand)
    \/ \E i1 \in Bounds, i2 \in Bounds : i1 < i2 /\ ApplyApplyRange(i1, i2, NextOperand)
    \/ \E i1 \in Bounds, i2 \in Bounds : i1 < i2 /\ ApplyCopy(i1, i2)

SpecPending == InitPending /\ [][NextPending]_vars

\* ------------------------------------------------------------------ claims
\* test_sum_range's brute-force loop: tmp2 = op(); tmp2 = op(tmp2, values[k])
\* for k = index1, ..., index2-1
RECURSIVE test_sum_range_ref(_, _, _, _)
test_sum_range_ref(v, tmp2, index1, index2) ==
    IF index1 < index2
    THEN test_sum_range_ref(v, combine(tmp2, v[index1]), index1 + 1, index2)
    ELSE tmp2

\* the cells above cell k on its path to the root
RECURSIVE ProperAncestors(_)
ProperAncestors(k) ==
    IF k <= 1 THEN {}
    ELSE {index_parent(k)} \cup ProperAncestors(index_parent(k))

\* the last call was the call kind of the class cls
After(cls, kind) == variant = cls /\ last.kind = kind

\* C1: with the sum, whatever apply / assign / range-assign calls were made
\* on a gutter_retrieve, accumulate(i1, i2) is the left fold of the mirrored
\* plain array over [i1, i2) for all 0 <= i1 <= i2 <= n, and operator[]
\* returns the mirrored element.
C1_AccumulateIsFoldOfValues ==
    (variant = "retrieve" /\ opname = "add") =>
        /\ \A i1 \in Bounds, i2 \in Bounds :
              i1 <= i2 =>
                 gutter_retrieve_accumulate(heap, i1, i2)
                    = test_sum_range_ref(values, identity, i1, i2)
        /\ \A i \in Leaves : gutter_retrieve_read(heap, i) = values[i]

C1_Witness ==
    /\ variant = "retrieve" /\ opname = "add" /\ size = 5
    /\ called = {"assign_range", "apply"} /\ last.kind = "apply"
    /\ values[1] # 0 /\ values[2] # 0 /\ values[3] # values[2]
    /\ gutter_retrieve_accumulate(heap, 1, 4) # 0

\* C2: in every state of a gutter_retrieve, every internal cell j in 1..n-1
\* holds combine(cell 2j, cell 2j+1).
C2_InternalNodesAreCombined ==
    variant = "retrieve" =>
        \A j \in 1..(size - 1) :
            heap[j] = combine(heap[index_lbranch(j)], heap[index_rbranch(j)])

C2_Witness ==
    /\ After("retrieve", "assign_range") /\ size = 5 /\ nops = 2
    /\ last.i1 = 1 /\ last.i2 = 3
    /\ heap[1] # identity /\ heap[4] # identity /\ heap[3] # identity

\* C3: with the sum, after range and point apply calls only on a
\* gutter_apply, operator[] of every element is the fold, in call order from
\* the identity, of the operands of the calls whose interval held it.
C3_ReadIsFoldOfApplied ==
    (variant = "apply" /\ opname = "add" /\ called \subseteq {"apply", "apply_range"}) =>
        \A i \in Leaves : gutter_apply_read(heap, i) = values[i]

C3_Witness ==
    /\ variant = "apply" /\ opname = "add" /\ size = 5
    /\ called = {"apply", "apply_range"}
    /\ last.kind = "apply_range" /\ last.i1 = 1 /\ last.i2 = 4
    /\ gutter_apply_read(heap, 2) = Operand(1, 1) + Operand(2, 1)

\* C4: after assign(i, x) on a gutter_apply returns, every proper ancestor
\* of element i's cell holds the identity.
C4_AssignConsolidatesPath ==
    After("apply", "assign") =>
        \A a \in ProperAncestors(index_nth_leaf(last.i1)) : heap[a] = identity

\* C5: assign(i, x) on a gutter_apply makes operator[] of i the combination
\* of its value before the call with x, and leaves operator[] of every
\* other element as it was.
C5_AssignCombinesIntoOne ==
    After("apply", "assign") =>
        /\ gutter_apply_read(heap, last.i1)
              = combine(gutter_apply_read(before, last.i1), last.x)
        /\ \A k \in Leaves \ {last.i1} :
              gutter_apply_read(heap, k) = gutter_apply_read(before, k)

\* C6: copy(i1, i2) with i1 < i2 on a gutter_apply emits i2-i1 elements,
\* the k-th being what operator[] of i1+k returned just before the call.
C6_CopyEmitsReads ==
    (After("apply", "copy") /\ last.i1 < last.i2) =>
        /\ Len(ret) = last.i2 - last.i1
        /\ iter = last.i2 - last.i1
        /\ \A k \in 1..(last.i2 - last.i1) :
              ret[k] = gutter_apply_read(before, last.i1 + k - 1)

C6_Witness ==
    /\ After("apply", "copy") /\ size = 5 /\ last.i1 = 0 /\ last.i2 = 5
    /\ before[4] # identity /\ heap[4] = identity
    /\ Len(ret) = 5 /\ ret[2] # identity /\ ret[2] # ret[3]

\* C7: assign(i1, i2, input) with i1 < i2 on a gutter_retrieve reads exactly
\* i2-i1 elements of input, makes operator[] of i1+k the k-th of them, and
\* leaves operator[] of every element outside [i1, i2) as it was.
C7_AssignRangeWritesInput ==
    (After("retrieve", "assign_range") /\ last.i1 < last.i2) =>
        /\ iter = last.i2 - last.i1
        /\ \A k \in 0..(last.i2 - last.i1 - 1) :
              gutter_retrieve_read(heap, last.i1 + k) = last.x[k + 1]
        /\ \A j \in Leaves :
              (j < last.i1 \/ j >= last.i2) =>
                 gutter_retrieve_read(heap, j) = gutter_retrieve_read(before, j)

C7_Witness ==
    /\ After("retrieve", "assign_range") /\ size = 5 /\ nops = 2
    /\ last.i1 = 1 /\ last.i2 = 4 /\ iter = 3
    /\ gutter_retrieve_read(heap, 0) # identity
    /\ gutter_retrieve_read(heap, 4) # identity

\* C8: a range call with i1 = i2 changes no cell: the range apply and copy
\* of a gutter_apply (copy emitting nothing), the range assign of a
\* gutter_retrieve (reading no input); accumulate returns the identity.
C8_EmptyRangeIsNoOp ==
    /\ (last.kind \in {"apply_range", "copy", "assign_range"} /\ last.i1 = last.i2) =>
          (heap = before /\ ret = <<>> /\ iter = 0)
    /\ variant = "retrieve" =>
          \A i \in Bounds : gutter_retrieve_accumulate(heap, i, i) = identity

C8_Witness ==
    /\ After("apply", "copy") /\ size = 5 /\ nops = 2
    /\ last.i1 = 3 /\ last.i2 = 3 /\ ret = <<>>
    /\ heap[1] # identity

\* C9: on a freshly constructed container, accumulate(i1, i2) of a
\* gutter_retrieve is the identity for all 0 <= i1 <= i2 <= n, and
\* operator[] of a gutter_apply is the identity for every element.
C9_FreshIsIdentity ==
    last.kind = "new" =>
        /\ variant = "retrieve" =>
              \A i1 \in Bounds, i2 \in Bounds :
                 i1 <= i2 => gutter_retrieve_accumulate(heap, i1, i2) = identity
        /\ variant = "apply" =>
              \A i \in Leaves : gutter_apply_read(heap, i) = identity

C9_Witness ==
    nops = 0 /\ last.kind = "new" /\ variant = "retrieve" /\ size = 5

\* C10: a range of one element acts as the point call: apply(i, i+1, x) and
\* apply(i, x) of a gutter_apply give the same buffer, assign(i, i+1, [x])
\* and assign(i, x) of a gutter_retrieve give the same buffer, and
\* accumulate(i, i+1) is operator[] of i.
C10_SingletonRangeIsPoint ==
    /\ variant = "apply" =>
          \A i \in Leaves :
             gutter_apply_apply_range(heap, i, i + 1, NextOperand)
                = gutter_apply_apply(heap, i, NextOperand)
    /\ variant = "retrieve" =>
          \A i \in Leaves :
             /\ gutter_retrieve_accumulate(heap, i, i + 1) = gutter_retrieve_read(heap, i)
             /\ gutter_retrieve_assign_range(heap, i, i + 1, <<NextOperand>>).binarray
                   = gutter_retrieve_assign(heap, i, NextOperand)

C10_Witness ==
    /\ variant = "retrieve" /\ size = 5 /\ nops = 2
    /\ heap[1] # identity /\ heap[5] # identity /\ heap[9] # identity

\* C11: construction of a gutter_retrieve from a sequence gives, whatever
\* the allocation held, the buffer that construction with its length
\* followed by assign(0, n, sequence) gives; every cell is written, and each
\* internal cell is computed after both its children were written.
C11_ListConstructionIsFillThenAssign ==
    last.kind = "new_list" =>
        /\ nops = 0 =>
              heap = gutter_retrieve_assign_range(
                         gutter_retrieve_new(size), 0, size, last.x).binarray
        /\ LET l1 == index_nth_leaf(0)
               l2 == index_nth_leaf(size - 1)
               leaves == act_on_leaves_in_order(l1, l2)
               nodes == act_on_all_ancestors_leafup_range(index_parent(l1),
                                                          index_parent(l2))
               leafset == {leaves[p] : p \in 1..Len(leaves)}
           IN  /\ leafset \cup {nodes[p] : p \in 1..Len(nodes)} = 1..(2 * size - 1)
               /\ \A p \in 1..Len(nodes) :
                     \A c \in {index_lbranch(nodes[p]), index_rbranch(nodes[p])} :
                        c \in leafset \/ \E q \in 1..(p - 1) : nodes[q] = c

C11_Witness ==
    /\ last.kind = "new_list" /\ nops = 0 /\ size = 5
    /\ heap[1] # identity /\ heap[4] # identity /\ heap[4] # heap[3]

\* ------------------------------------------------- the shape of the tree
\* The traversals depend on _size and their arguments only, not on what the
\* cells hold: what follows is stated for the containers as constructed,
\* which are of every size.
Constructed == nops = 0

\* a cell without children in the buffer
IsLeafCell(k) == index_lbranch(k) > 2 * size - 1

\* the leaf cells of the subtree of cell k
RECURSIVE LeavesUnder(_)
LeavesUnder(k) ==
    IF IsLeafCell(k) THEN {k}
    ELSE LeavesUnder(index_lbranch(k)) \cup LeavesUnder(index_rbranch(k))

\* the leaf cells of the subtree of cell k, left to right
RECURSIVE LeavesInOrder(_)
LeavesInOrder(k) ==
    IF IsLeafCell(k) THEN <<k>>
    ELSE LeavesInOrder(index_lbranch(k)) \o LeavesInOrder(index_rbranch(k))

\* the number of parent links from cell k to the root
RECURSIVE Depth(_)
Depth(k) == IF k <= 1 THEN 0 ELSE 1 + Depth(index_parent(k))

\* the least d with 2^d >= m
RECURSIVE CeilLog2(_)
CeilLog2(m) == IF m <= 1 THEN 0 ELSE 1 + CeilLog2((m + 1) \div 2)

\* the elements of a sequence
Range(seq) == {seq[p] : p \in 1..Len(seq)}

\* C12: for all 0 <= i1 < i2 <= n the nodes act_on_min_covering_ancestors
\* hands to the functor are distinct cells, no two of them siblings, their
\* subtrees have disjoint leaves, and together these are the cells of the
\* elements i1..i2-1 and no other.
C12_DecompositionPartitionsRange ==
    Constructed =>
        \A i1 \in Bounds, i2 \in Bounds :
            i1 < i2 =>
               LET nodes == act_on_min_covering_ancestors(i1, i2)
               IN  /\ Range(nodes) \subseteq 1..(2 * size - 1)
                   /\ \A p \in 1..Len(nodes), q \in 1..Len(nodes) :
                         p # q =>
                            /\ nodes[p] # nodes[q]
                            /\ index_parent(nodes[p]) # index_parent(nodes[q])
                            /\ LeavesUnder(nodes[p]) \cap LeavesUnder(nodes[q]) = {}
                   /\ UNION {LeavesUnder(c) : c \in Range(nodes)}
                         = {index_nth_leaf(k) : k \in i1..(i2 - 1)}

\* the range [1, 4) of five elements: its left end in the deepest row, its
\* right end in the row above, three nodes
C12_Witness ==
    /\ Constructed /\ size = 5
    /\ Depth(index_nth_leaf(1)) = 3 /\ Depth(index_nth_leaf(3)) = 2
    /\ Len(act_on_min_covering_ancestors(1, 4)) = 3

\* C13: index_nth_leaf maps the elements 0..n-1 one to one onto the cells
\* n..2n-1, so that cells 1..n-1 have both children in the buffer; every
\* leaf is at depth ceil(log2 n) or one less; and the leaves of the tree
\* from left to right are the cells of elements 0, 1, ..., n-1.
C13_LeafAddressing ==
    Constructed =>
        /\ \A j \in Leaves, k \in Leaves : j # k => index_nth_leaf(j) # index_nth_leaf(k)
        /\ {index_nth_leaf(k) : k \in Leaves} = size..(2 * size - 1)
        /\ \A j \in 1..(size - 1) :
              /\ index_lbranch(j) \in 1..(2 * size - 1)
              /\ index_rbranch(j) \in 1..(2 * size - 1)
        /\ \A k \in Leaves :
              Depth(index_nth_leaf(k)) \in {CeilLog2(size), CeilLog2(size) - 1}
        /\ LeavesInOrder(1) = [k \in 1..size |-> index_nth_leaf(k - 1)]

C13_Witness ==
    /\ Constructed /\ size = 5
    /\ index_nth_leaf(1) = 9 /\ index_nth_leaf(2) = 5
    /\ LeavesInOrder(1) = <<8, 9, 5, 6, 7>>

\* C14: after copy(i1, i2, output) of gutter_apply with i1 < i2 every cell
\* above the cell of an element of the range holds the identity; the walk
\* that consolidates calls the functor on each of these cells, and on no
\* cell other than the root before it has called it on the cell's parent.
C14_CopyConsolidatesTopRowFirst ==
    (After("apply", "copy") /\ last.i1 < last.i2) =>
        LET l1    == index_nth_leaf(last.i1)
            l2    == index_nth_leaf(last.i2 - 1)
            nodes == act_on_all_ancestors_rootdown_range(index_parent(l1),
                                                         index_parent(l2))
        IN  /\ \A k \in last.i1..(last.i2 - 1) :
                  \A a \in ProperAncestors(index_nth_leaf(k)) :
                     /\ heap[a] = identity
                     /\ a \in Range(nodes)
            /\ \A p \in 1..Len(nodes) :
                  nodes[p] # 1 =>
                     \E q \in 1..(p - 1) : nodes[q] = index_parent(nodes[p])

\* copy(1, 4) of five elements with a pending value on the parent of the
\* first leaf of the range, which the call moves to that leaf
C14_Witness ==
    /\ After("apply", "copy") /\ size = 5 /\ last.i1 = 1 /\ last.i2 = 4
    /\ before[4] # identity /\ before[9] = identity
    /\ heap[4] = identity /\ heap[9] # identity

\* C15: for all 0 <= i1 < i2 <= n the loop of act_on_min_covering_ancestors
\* leaves by a break, within _size + 1 iterations; neither bound is ever
\* below 1; the functor is called on at most 2 * ceil(log2 n) nodes, and on
\* one node when n = 1.
C15_DecompositionTerminatesBelowRoot ==
    Constructed =>
        \A i1 \in Bounds, i2 \in Bounds :
            i1 < i2 =>
               LET nodes == act_on_min_covering_ancestors(i1, i2)
                   steps == min_covering_bounds(index_nth_leaf(i1),
                                                index_nth_leaf(i2 - 1), size + 1)
               IN  /\ steps[Len(steps)][1] = steps[Len(steps)][2]
                   /\ \A p \in 1..Len(steps) : steps[p][1] >= 1 /\ steps[p][2] >= 1
                   /\ size >= 2 => Len(nodes) <= 2 * CeilLog2(size)
                   /\ size = 1 => Len(nodes) = 1

\* the range [0, 5) of five elements: the bounds start at cells 8 and 7,
\* and the loop leaves in its third iteration with both at the root
C15_Witness ==
    /\ Constructed /\ size = 5
    /\ LET steps == min_covering_bounds(index_nth_leaf(0), index_nth_leaf(4), size + 1)
       IN  /\ steps[1] = <<8, 7>>
           /\ Len(steps) > 8
           /\ steps[Len(steps)] = <<1, 1>>
    /\ act_on_min_covering_ancestors(0, 5) = <<1>>
    /\ 2 * CeilLog2(size) = 6

\* the element whose cell is the leaf cell k
LeafNo(k) == CHOOSE i \in Leaves : index_nth_leaf(i) = k

\* the elements of v by the cells of their leaves
ByCell(v) == [k \in size..(2 * size - 1) |-> v[LeafNo(k)]]

\* the left fold, from acc, of what c gives for the given leaf cells
RECURSIVE FoldCells(_, _, _)
FoldCells(c, acc, cells) ==
    IF cells = <<>> THEN acc
    ELSE FoldCells(c, combine(acc, c[Head(cells)]), Tail(cells))

\* the left fold, from acc, over the given nodes in their order, of the
\* left-to-right fold of what c gives for the leaf cells below each node
RECURSIVE FoldSubtrees(_, _, _)
FoldSubtrees(c, acc, nodes) ==
    IF nodes = <<>> THEN acc
    ELSE FoldSubtrees(c,
                      combine(acc, FoldCells(c, identity, LeavesInOrder(Head(nodes)))),
                      Tail(nodes))

\* every element below node a is right of every element below node b
RightOf(a, b) ==
    \A x \in LeavesUnder(a), y \in LeavesUnder(b) : LeafNo(x) > LeafNo(y)

\* C16: with concatenation, accumulate(i1, i2) of a gutter_retrieve is the
\* concatenation of the subtrees' contents in the order in which
\* act_on_min_covering_ancestors visits their nodes; and when n >= 4 and no
\* element is empty there is a range i1 < i2 in which a node is visited
\* before one left of it and accumulate is not the left-to-right fold.
C16_AccumulateFoldsInVisitOrder ==
    (variant = "retrieve" /\ opname = "cat") =>
        /\ LET c == ByCell(values)
           IN  \A i1 \in Bounds, i2 \in Bounds :
                  i1 < i2 =>
                     LET nodes == act_on_min_covering_ancestors(i1, i2)
                     IN  each_get(heap, identity, nodes)
                           = FoldSubtrees(c, identity, nodes)
        /\ (size >= 4 /\ \A k \in Leaves : values[k] # identity) =>
              \E i1 \in Bounds, i2 \in Bounds :
                 /\ i1 < i2
                 /\ gutter_retrieve_accumulate(heap, i1, i2)
                       # test_sum_range_ref(values, identity, i1, i2)
                 /\ LET nodes == act_on_min_covering_ancestors(i1, i2)
                    IN  \E p \in 1..Len(nodes), q \in 1..Len(nodes) :
                           p < q /\ RightOf(nodes[p], nodes[q])

\* four elements, the third then appended to: the range [0, 3) visits the
\* cell of element 2 before the parent of elements 0 and 1
C16_Witness ==
    /\ After("retrieve", "apply") /\ opname = "cat" /\ size = 4 /\ last.i1 = 2
    /\ \A k \in Leaves : values[k] # identity
    /\ act_on_min_covering_ancestors(0, 3) = <<6, 2>>
    /\ gutter_retrieve_accumulate(heap, 0, 3) = values[2] \o values[0] \o values[1]
    /\ test_sum_range_ref(values, identity, 0, 3) = values[0] \o values[1] \o values[2]
    /\ Len(values[2]) = 2

\* ------------------------------------------- the cells an operation uses
\* The indices at which a call subscripts the buffer: functor_get,
\* functor_apply, functor_get_to_iter and functor_set_from_iter subscript it
\* at the node they are called on, functor_update_parent and
\* functor_consolidate at the node and at both its children.
Touched_at_node(nodes) == {nodes[p] : p \in 1..Len(nodes)}

Touched_with_children(nodes) ==
    UNION {{nodes[p], index_lbranch(nodes[p]), index_rbranch(nodes[p])} :
              p \in 1..Len(nodes)}

\* gutter_retrieve: operator[], assign and apply, accumulate, range assign
Touched_retrieve_read(leaf_no) == {index_nth_leaf(leaf_no)}

Touched_retrieve_assign(leaf_no) ==
    LET leaf == index_nth_leaf(leaf_no)
    IN  {leaf} \cup Touched_with_children(
                        act_on_all_ancestors_leafup(index_parent(leaf)))

Touched_retrieve_accumulate(leaf1, leaf2) ==
    Touched_at_node(act_on_min_covering_ancestors(leaf1, leaf2))

Touched_retrieve_assign_range(i1, i2) ==
    IF i1 >= i2 THEN {}
    ELSE
      LET l1 == index_nth_leaf(i1)
          l2 == index_nth_leaf(i2 - 1)
      IN  Touched_at_node(act_on_leaves_in_order(l1, l2))
            \cup Touched_with_children(
                     act_on_all_ancestors_leafup_range(index_parent(l1),
                                                       index_parent(l2)))

\* gutter_apply: apply, assign, operator[], range apply, copy
Touched_apply_apply(leaf_no) == {index_nth_leaf(leaf_no)}

Touched_apply_assign(leaf_no) ==
    LET leaf == index_nth_leaf(leaf_no)
    IN  Touched_with_children(act_on_all_ancestors_rootdown(index_parent(leaf)))
          \cup {leaf}

Touched_apply_read(leaf_no) ==
    Touched_at_node(act_on_all_ancestors(index_nth_leaf(leaf_no)))

Touched_apply_apply_range(i1, i2) ==
    Touched_at_node(act_on_min_covering_ancestors(i1, i2))

Touched_apply_copy(i1, i2) ==
    IF i1 >= i2 THEN {}
    ELSE
      LET l1 == index_nth_leaf(i1)
          l2 == index_nth_leaf(i2 - 1)
      IN  Touched_with_children(
              act_on_all_ancestors_rootdown_range(index_parent(l1),
                                                  index_parent(l2)))
            \cup Touched_at_node(act_on_leaves_in_order(l1, l2))

\* C17: for every operation of gutter_retrieve and of gutter_apply and all
\* arguments 0 <= i < n, 0 <= i1 <= i2 <= n, every index at which the call
\* subscripts the buffer is one of 1..2n-1.
C17_SubscriptsStayInBuffer ==
    Constructed =>
        LET cells == 1..(2 * size - 1)
        IN  /\ variant = "retrieve" =>
                  /\ \A i \in Leaves :
                        /\ Touched_retrieve_read(i) \subseteq cells
                        /\ Touched_retrieve_assign(i) \subseteq cells
                  /\ \A i1 \in Bounds, i2 \in Bounds :
                        i1 <= i2 =>
                           /\ Touched_retrieve_accumulate(i1, i2) \subseteq cells
                           /\ Touched_retrieve_assign_range(i1, i2) \subseteq cells
            /\ variant = "apply" =>
                  /\ \A i \in Leaves :
                        /\ Touched_apply_apply(i) \subseteq cells
                        /\ Touched_apply_assign(i) \subseteq cells
                        /\ Touched_apply_read(i) \subseteq cells
                  /\ \A i1 \in Bounds, i2 \in Bounds :
                        i1 <= i2 =>
                           /\ Touched_apply_apply_range(i1, i2) \subseteq cells
                           /\ Touched_apply_copy(i1, i2) \subseteq cells

\* five elements: copy(2, 5) stays above the deepest row, copy(0, 5)
\* subscripts every cell of the buffer, assign(1) the deepest leaf 9
C17_Witness ==
    /\ Constructed /\ variant = "apply" /\ size = 5
    /\ Touched_apply_copy(2, 5) = {1, 2, 3, 4, 5, 6, 7}
    /\ Touched_apply_copy(0, 5) = 1..9
    /\ Touched_apply_assign(1) = {1, 2, 3, 4, 5, 9}

\* C18: copy(i1, i2, output) of gutter_apply, whatever calls came before,
\* leaves operator[] of every element as it was, in the range and outside
\* it.  The operation is concatenation and every call's operand a sequence
\* of one element that occurs nowhere else: an equation between two such
\* concatenations holds in every monoid.
C18_CopyKeepsReads ==
    After("apply", "copy") =>
        \A k \in Leaves : gutter_apply_read(heap, k) = gutter_apply_read(before, k)

\* three elements: a value pending on the root, another on the parent of
\* elements 0 and 1, then copy(1, 2) moves both to the cells of elements
\* 0 and 1; element 0, outside the range, reads the two as before
C18_Witness ==
    /\ After("apply", "copy") /\ opname = "cat" /\ size = 3
    /\ last.i1 = 1 /\ last.i2 = 2
    /\ before[1] # identity /\ before[2] # identity /\ before[4] = identity
    /\ heap[1] = identity /\ heap[2] = identity
    /\ Len(heap[4]) = 2
    /\ Len(gutter_apply_read(before, 0)) = 2

====
